---- MODULE Spec2Model ----
(***************************************************************************)
(* Model of the structured logger of node-mini-framework                   *)
(* (src/src/core/logger.core.js, class Logger).                            *)
(*                                                                         *)
(* The file system under LOG_DIR is a map from paths to file contents; a   *)
(* path is <<day, type, suffix>> with suffix -1 for the canonical          *)
(* <day>/<type>.log and the epoch timestamp for <day>/<type>.<ts>.log.     *)
(* Sizes are counted in units of one short log line; MAX_LOG_SIZE is       *)
(* scaled to the same unit.  The clock is Date.now() in ticks, a calendar  *)
(* day being TicksPerDay ticks.                                            *)
(*                                                                         *)
(* Specifications: Spec (the log calls, table, clearStats), SweepSpec (the *)
(* retention sweep beside info calls), GroupSpec (group), StatsSpec        *)
(* (stats and clearStats beside the log calls), ParseSpec (parseStack),    *)
(* FormatSpec (the messages record() composes), BootSpec (Boot.run and the *)
(* components it starts), RotateSpec (calls with long entries in a day     *)
(* directory that holds files of an earlier run) and CounterSpec (every    *)
(* operation that can touch the counters, the sweep included).             *)
(***************************************************************************)
EXTENDS Integers, Sequences, FiniteSets, TLC

VARIABLES
    production,  \* config.app.production (src/app/config.js line 7)
    now,         \* the wall clock read by Date.now() and new Date()
    logStats,    \* Logger.logStats, lines 11-18
    dirs,        \* the daily directories under LOG_DIR: day -> mtime, or NoDir
    files,       \* the files under LOG_DIR: path -> sequence of entries
    last,        \* what the latest call did: writes, console, exception
    recorded,    \* history: record() calls made so far, per severity
    base,        \* history: the value of recorded at the last clearStats()
    seq,         \* history: number of calls made so far; numbers the entries
    timer,       \* the interval timer of startLogRotation(), lines 283-290
    snap,        \* the object a caller holds after stats(), lines 273-275
    boot,        \* the position of Boot.run() and the components it has started
    pure         \* argument and result of a pure helper (parseStack, messages)

vars == <<production, now, logStats, dirs, files, last, recorded, base, seq,
          timer, snap, boot, pure>>

\* ---------------------------------------------------------------- bounds
MaxNow == 2            \* the clock stops at this tick
TicksPerDay == 2       \* clock ticks in one calendar day
MaxOps == 2            \* calls made on the logger after start-up

\* ------------------------------------------------------------- constants
MAX_LOG_SIZE == 2      \* static MAX_LOG_SIZE, scaled to size units

Severities == {"info", "debug", "log", "warning", "error", "all"}

Days == 0..(MaxNow \div TicksPerDay)
NoDir == -1
NoPath == <<-1, "", -1>>

\* new Date().toISOString().slice(0, 10): the calendar day of a clock value
DayOf(t) == t \div TicksPerDay

\* path.join(dir, `${type}.log`)
Canon(d, type) == <<d, type, -1>>

\* path.join(dir, `${type}.${timestamp}.log`)
RotatedName(d, type, ts) == <<d, type, ts>>

\* the clock values a later read of the clock inside the same call can return:
\* the same tick, or the first tick of the next calendar day
Times(t) == {t} \cup {u \in {t + 1} : u <= MaxNow /\ DayOf(u) # DayOf(t)}

\* the size of a file message of record(): one short line
MsgSizes == {1}

\* the size of the JSON dump table() writes: several lines
TableSizes == {2}

RECURSIVE FileSize(_)
\* stats.size: the bytes of a file, the sum of its appended messages
FileSize(content) ==
    IF content = <<>> THEN 0
    ELSE Head(content).size + FileSize(Tail(content))

\* fs.existsSync(dir) || fs.mkdirSync(dir): the directory table after todayDir()
MkDir(D, d, t) == IF D[d] = NoDir THEN [D EXCEPT ![d] = t] ELSE D

\* fs.renameSync(file, rotatedFile): the target is replaced when it exists
Rename(F, from, to) ==
    [p \in (DOMAIN F \ {from}) \cup {to} |-> IF p = to THEN F[from] ELSE F[p]]

\* fs.appendFileSync(file, message + '\n', { flag: 'a' })
AppendFile(F, file, msg) ==
    IF file \in DOMAIN F
    THEN [F EXCEPT ![file] = Append(@, msg)]
    ELSE [p \in DOMAIN F \cup {file} |-> IF p = file THEN <<msg>> ELSE F[p]]

\* the outcome of one writeToFile before any file-system call has been made
Blank(F, D, type, t) ==
    [files |-> F, dirs |-> D, t |-> t, type |-> type, path |-> NoPath,
     old |-> <<>>, over |-> FALSE, rotatedTo |-> NoPath, appended |-> FALSE,
     threw |-> FALSE, failed |-> FALSE]

\* line 80: the append, which may throw
AppendStep(b, msg) ==
    LET created == b.path \notin DOMAIN b.files
        d == b.path[1]
    IN  { [b EXCEPT !.threw = TRUE],
          [b EXCEPT !.files = AppendFile(b.files, b.path, msg),
                    !.dirs = IF created THEN [b.dirs EXCEPT ![d] = b.t] ELSE b.dirs,
                    !.appended = TRUE] }

\* lines 74-76: the rotation at clock value t2; todayDir() is evaluated again
RotateStep(b, msg, t2) ==
    LET d2 == DayOf(t2)
        rotatedFile == RotatedName(d2, b.type, t2)
        D2 == MkDir(b.dirs, d2, t2)
        mkdirThrows == IF b.dirs[d2] = NoDir
                       THEN {[b EXCEPT !.t = t2, !.threw = TRUE]} ELSE {}
        renameThrows == {[b EXCEPT !.t = t2, !.dirs = D2, !.threw = TRUE]}
        moved == [b EXCEPT !.t = t2,
                           !.files = Rename(b.files, b.path, rotatedFile),
                           !.dirs = [D2 EXCEPT ![b.path[1]] = t2, ![d2] = t2],
                           !.rotatedTo = rotatedFile]
    IN  mkdirThrows \cup renameThrows \cup AppendStep(moved, msg)

\* the rotation test made at exactly the maximum size
OversizeAtMax(F, file) == file \in DOMAIN F /\ FileSize(F[file]) >= MAX_LOG_SIZE

\* the rotation test made against a larger limit
OversizeLax(F, file) == file \in DOMAIN F /\ FileSize(F[file]) > MAX_LOG_SIZE + 1

\* lines 71-73: fs.existsSync(file) and stats.size > this.MAX_LOG_SIZE
Oversize(F, file) == file \in DOMAIN F /\ FileSize(F[file]) > MAX_LOG_SIZE

\* lines 69-80: the body of the try block, todayDir() read at clock value t1
TryWrite(F, D, type, msg, t1) ==
    LET d1 == DayOf(t1)
        file == Canon(d1, type)
        b0 == Blank(F, D, type, t1)
        mkdirThrows == IF D[d1] = NoDir THEN {[b0 EXCEPT !.threw = TRUE]} ELSE {}
        exists == file \in DOMAIN F
        b1 == [b0 EXCEPT !.dirs = MkDir(D, d1, t1), !.path = file,
                         !.old = IF exists THEN F[file] ELSE <<>>]
        statThrows == IF exists THEN {[b1 EXCEPT !.threw = TRUE]} ELSE {}
        over == Oversize(F, file)
    IN  mkdirThrows \cup statThrows \cup
        IF over
        THEN UNION {RotateStep([b1 EXCEPT !.over = TRUE], msg, t2) : t2 \in Times(t1)}
        ELSE AppendStep(b1, msg)

\* lines 81-83: catch (err) { console.error('Failed to write log:', ...) }
\* (failed: the exception was caught and reported on the standard error stream)
Caught(o) == IF o.threw THEN [o EXCEPT !.threw = FALSE, !.failed = TRUE] ELSE o

\* a writeToFile whose catch clause is missing: the exception leaves the function
WriteToFileUncaught(F, D, type, msg, t) == TryWrite(F, D, type, msg, t)

\* Logger.writeToFile(type, message): every outcome the file system allows
WriteToFile(F, D, type, msg, t) == {Caught(o) : o \in TryWrite(F, D, type, msg, t)}


\* ------------------------------------------------------------ Logger.record
\* what a finished writeToFile leaves to be observed
Summary(o) ==
    [type |-> o.type, path |-> o.path, old |-> o.old, over |-> o.over,
     rotatedTo |-> o.rotatedTo, appended |-> o.appended, failed |-> o.failed]

NoWrite ==
    [type |-> "", path |-> NoPath, old |-> <<>>, over |-> FALSE,
     rotatedTo |-> NoPath, appended |-> FALSE, failed |-> FALSE]

\* line 213 with every console echo dropped in production mode
ShouldLogQuiet(type) == ~production

\* line 213: const shouldLog = !config.app.production || !['error', 'warning'].includes(type)
ShouldLog(type) == ~production \/ type \notin {"error", "warning"}

\* line 219 without the production test
ShouldThrowAlways(type, noThrow) == type = "error" /\ ~noThrow

\* line 219 with the production test reversed
ShouldThrowInProduction(type, noThrow) == production /\ type = "error" /\ ~noThrow

\* line 219: !config.app.production && type === 'error' && !options.noThrow
ShouldThrow(type, noThrow) == ~production /\ type = "error" /\ ~noThrow

\* an exception that left writeToFile ends the caller at that point
Aborted(o, w1, w2) ==
    [files |-> o.files, dirs |-> o.dirs, t |-> o.t, w1 |-> w1, w2 |-> w2,
     printed |-> FALSE, raised |-> "fault"]

\* lines 209-217: the two writes, then the console echo
WriteAndEcho(F, D, type, msg, t) ==
    UNION { IF o1.threw THEN {Aborted(o1, Summary(o1), NoWrite)}
            ELSE { IF o2.threw THEN Aborted(o2, Summary(o1), Summary(o2))
                   ELSE [files |-> o2.files, dirs |-> o2.dirs, t |-> o2.t,
                         w1 |-> Summary(o1), w2 |-> Summary(o2),
                         printed |-> ShouldLog(type), raised |-> "none"]
                   : o2 \in UNION { WriteToFile(o1.files, o1.dirs, "all", msg, t2)
                                    : t2 \in Times(o1.t) } }
            : o1 \in WriteToFile(F, D, type, msg, t) }

\* a record() that raises before it writes
RecordOutcomesThrowFirst(F, D, type, noThrow, msg, t) ==
    IF ShouldThrow(type, noThrow)
    THEN {[files |-> F, dirs |-> D, t |-> t, w1 |-> NoWrite, w2 |-> NoWrite,
           printed |-> FALSE, raised |-> "rethrow"]}
    ELSE WriteAndEcho(F, D, type, msg, t)

\* lines 209-221: writes, echo, then the re-raise of an error entry
RecordOutcomes(F, D, type, noThrow, msg, t) ==
    { IF r.raised = "none" /\ ShouldThrow(type, noThrow)
      THEN [r EXCEPT !.raised = "rethrow"] ELSE r
      : r \in WriteAndEcho(F, D, type, msg, t) }

\* a record() that counts its entry twice
IncrStatTwice(S, type) == [S EXCEPT ![type] = @ + 2]

\* line 172: this.logStats[type] = (this.logStats[type] || 0) + 1
IncrStat(S, type) == [S EXCEPT ![type] = @ + 1]

\* the public entry points that end in record(), lines 224-255
Ops == {"info", "debug", "log", "warning", "error", "set", "all", "trace"}

\* the severity each entry point passes to record()
TypeOf(op) ==
    CASE op = "set" -> "error"
      [] op = "trace" -> "debug"
      [] OTHER -> op

\* ------------------------------------------------------------------- state
\* the two entries of the static initializer, lines 21 and 24
StartupMsgs ==
    << [id |-> 1, type |-> "info", size |-> 1],
       [id |-> 2, type |-> "info", size |-> 1] >>

ZeroStats == [s \in Severities |-> 0]

\* lines 283-290: setInterval(() => this.cleanOldLogs(), 24 * 60 * 60 * 1000) set
\* at clock value t; the callback is first due one interval later
StartLogRotation(t) == [due |-> t + TicksPerDay, runs |-> 0]

\* no stats() object is held by any caller
NoSnap == [ref |-> "none", val |-> ZeroStats, orig |-> ZeroStats, touched |-> FALSE]

\* Boot.run() has not been called
NotBooted == [pc |-> "idle", trace |-> <<>>, dbFailed |-> FALSE, err |-> "none", faults |-> 0]

\* no helper has been applied
Idle == [fn |-> "none"]

Init ==
    /\ production \in BOOLEAN
    /\ now = 0
    /\ logStats = [ZeroStats EXCEPT !["info"] = Len(StartupMsgs)]
    /\ recorded = [ZeroStats EXCEPT !["info"] = Len(StartupMsgs)]
    /\ base = ZeroStats
    /\ seq = Len(StartupMsgs)
    /\ dirs = [d \in Days |-> IF d = 0 THEN 0 ELSE NoDir]
    /\ files = (Canon(0, "info") :> StartupMsgs) @@ (Canon(0, "all") :> StartupMsgs)
    /\ last = [op |-> "record", type |-> "info", noThrow |-> FALSE, id |-> 2,
               size |-> 1, statBefore |-> 1, printed |-> TRUE, raised |-> "none",
               w1 |-> [NoWrite EXCEPT !.type = "info", !.path = Canon(0, "info"),
                                      !.old = <<StartupMsgs[1]>>, !.appended = TRUE],
               w2 |-> [NoWrite EXCEPT !.type = "all", !.path = Canon(0, "all"),
                                      !.old = <<StartupMsgs[1]>>, !.appended = TRUE]]
    /\ timer = StartLogRotation(0)
    /\ snap = NoSnap
    /\ boot = NotBooted
    /\ pure = Idle

CanCall == seq < Len(StartupMsgs) + MaxOps

\* info / debug / log / warning / error / set / all / trace
Record ==
    /\ CanCall
    /\ \E op \in Ops, noThrow \in BOOLEAN, size \in MsgSizes :
         /\ noThrow => op \in {"error", "set"}
         /\ LET type == TypeOf(op)
                msg == [id |-> seq + 1, type |-> type, size |-> size]
            IN  \E r \in RecordOutcomes(files, dirs, type, noThrow, msg, now) :
                  /\ logStats' = IncrStat(logStats, type)
                  /\ recorded' = [recorded EXCEPT ![type] = @ + 1]
                  /\ files' = r.files
                  /\ dirs' = r.dirs
                  /\ now' = r.t
                  /\ seq' = seq + 1
                  /\ last' = [op |-> "record", type |-> type, noThrow |-> noThrow,
                              id |-> seq + 1, size |-> size,
                              statBefore |-> logStats[type],
                              printed |-> r.printed, raised |-> r.raised,
                              w1 |-> r.w1, w2 |-> r.w2]
    /\ UNCHANGED <<production, base, timer, snap, boot, pure>>

\* the shapes of the data argument of table()
TableData == {"none", "empty", "rows", "circular"}

\* JSON.stringify(data, null, 2) throws a TypeError on a circular structure
JsonThrows(data) == data = "circular"

\* Logger.table(layer, data), lines 266-271
Table ==
    /\ CanCall
    /\ \E data \in TableData, size \in TableSizes :
         LET msg == [id |-> seq + 1, type |-> "table", size |-> size]
             skip == data \in {"none", "empty"}
             quiet == [files |-> files, dirs |-> dirs, t |-> now, w1 |-> NoWrite,
                       w2 |-> NoWrite, printed |-> ~skip,
                       raised |-> IF skip THEN "none" ELSE "fault"]
             outs == IF skip \/ JsonThrows(data) THEN {quiet}
                     ELSE { IF o.threw THEN Aborted(o, Summary(o), NoWrite)
                            ELSE [files |-> o.files, dirs |-> o.dirs, t |-> o.t,
                                  w1 |-> Summary(o), w2 |-> NoWrite,
                                  printed |-> TRUE, raised |-> "none"]
                            : o \in WriteToFile(files, dirs, "log", msg, now) }
         IN  \E r \in outs :
               /\ files' = r.files
               /\ dirs' = r.dirs
               /\ now' = r.t
               /\ seq' = seq + 1
               /\ last' = [op |-> "table", type |-> data, noThrow |-> FALSE,
                           id |-> seq + 1, size |-> size, statBefore |-> 0,
                           printed |-> r.printed, raised |-> r.raised,
                           w1 |-> r.w1, w2 |-> r.w2]
    /\ UNCHANGED <<production, logStats, recorded, base, timer, snap, boot, pure>>

\* a clearStats() that leaves the info counter as it is
ClearStatsKeepsInfo ==
    /\ CanCall
    /\ logStats' = [s \in DOMAIN logStats |-> IF s = "info" THEN logStats[s] ELSE 0]
    /\ base' = recorded
    /\ seq' = seq + 1
    /\ last' = [op |-> "clearStats", type |-> "", noThrow |-> FALSE, id |-> seq + 1,
                size |-> 0, statBefore |-> 0, printed |-> FALSE, raised |-> "none",
                w1 |-> NoWrite, w2 |-> NoWrite]
    /\ UNCHANGED <<production, now, dirs, files, recorded, timer, snap, boot, pure>>

\* Logger.clearStats(), lines 277-281
ClearStats ==
    /\ CanCall
    /\ logStats' = [s \in DOMAIN logStats |-> 0]
    /\ base' = recorded
    /\ seq' = seq + 1
    /\ last' = [op |-> "clearStats", type |-> "", noThrow |-> FALSE, id |-> seq + 1,
                size |-> 0, statBefore |-> 0, printed |-> FALSE, raised |-> "none",
                w1 |-> NoWrite, w2 |-> NoWrite]
    /\ UNCHANGED <<production, now, dirs, files, recorded, timer, snap, boot, pure>>

\* the wall clock advances between two calls
Tick ==
    /\ now < MaxNow
    /\ now' = now + 1
    /\ UNCHANGED <<production, logStats, dirs, files, last, recorded, base, seq,
                   timer, snap, boot, pure>>

Next == Record \/ Table \/ ClearStats \/ Tick

Spec == Init /\ [][Next]_vars

\* ------------------------------------------------------- retention sweep
MAX_LOG_FILES == 7     \* static MAX_LOG_FILES: days a directory is kept

\* the test made at the limit itself
ExpiredAtLimit(t, mtime) == t - mtime >= MAX_LOG_FILES * TicksPerDay

\* the test with the comparison reversed
ExpiredReversed(t, mtime) == t - mtime < MAX_LOG_FILES * TicksPerDay

\* lines 296 and 302: now - stats.mtimeMs > maxAge, maxAge being MAX_LOG_FILES days
Expired(t, mtime) == t - mtime > MAX_LOG_FILES * TicksPerDay

\* an entry of fs.readdirSync(LOG_DIR): a daily directory or a plain file
DirEntry(d) == [dir |-> TRUE, day |-> d, name |-> ""]
FileEntry(p) == [dir |-> FALSE, day |-> NoDir, name |-> p[2]]
NoEntry == [dir |-> FALSE, day |-> NoDir, name |-> ""]

\* a plain file that lies directly under LOG_DIR, beside the daily directories
RootFile(name) == <<NoDir, name, -1>>

\* line 294: fs.readdirSync(this.LOG_DIR)
RootEntries(F, D) ==
    {DirEntry(d) : d \in {e \in DOMAIN D : D[e] # NoDir}}
        \cup {FileEntry(p) : p \in {q \in DOMAIN F : q[1] = NoDir}}

\* line 303: fs.rmSync(dirPath, { recursive: true, force: true })
RmDir(F, D, d) ==
    [files |-> [p \in {q \in DOMAIN F : q[1] # d} |-> F[p]],
     dirs |-> [D EXCEPT ![d] = NoDir]]

\* the orders in which the entries of a set can come
Perms(S) ==
    {f \in [1..Cardinality(S) -> S] : \A i, j \in DOMAIN f : f[i] = f[j] => i = j}

\* lines 303-304: the directory is removed, then this.info() records the removal
DeleteAndLog(st, d) ==
    LET rm == RmDir(st.files, st.dirs, d)
        msg == [id |-> st.id + 1, type |-> "info", size |-> 1]
    IN  { [files |-> r.files, dirs |-> r.dirs, stats |-> IncrStat(st.stats, "info"),
           t |-> r.t, id |-> st.id + 1, logged |-> st.logged + 1,
           w1 |-> r.w1, w2 |-> r.w2, printed |-> r.printed,
           stopped |-> r.raised # "none"]
          : r \in RecordOutcomes(rm.files, rm.dirs, "info", FALSE, msg, st.t) }

RECURSIVE SweepDirs(_, _)
\* lines 298-306 over the expired directories, in listing order
SweepDirs(st, order) ==
    IF order = <<>> \/ st.stopped THEN {st}
    ELSE UNION {SweepDirs(nx, Tail(order)) : nx \in DeleteAndLog(st, Head(order))}

\* Logger.cleanOldLogs(), lines 292-310: every outcome of one sweep at clock
\* value t.  The listing order is the file system's; a call that throws
\* (readdirSync, statSync, rmSync) ends the sweep in the catch clause, the
\* directories visited before it having been removed.
CleanOldLogs(F, D, S, t, id) ==
    LET entries == RootEntries(F, D)
        expired == {d \in DOMAIN D : D[d] # NoDir /\ Expired(t, D[d])}
        start == [files |-> F, dirs |-> D, stats |-> S, t |-> t, id |-> id,
                  logged |-> 0, w1 |-> NoWrite, w2 |-> NoWrite, printed |-> FALSE,
                  stopped |-> FALSE]
        Run(done, fault, on) ==
            UNION { { [files |-> o.files, dirs |-> o.dirs, stats |-> o.stats,
                       t |-> o.t, id |-> o.id, logged |-> o.logged,
                       w1 |-> o.w1, w2 |-> o.w2, printed |-> o.printed,
                       deleted |-> SubSeq(order, 1, o.logged),
                       fault |-> IF o.stopped THEN "info" ELSE fault,
                       failedOn |-> IF o.stopped THEN NoEntry ELSE on]
                      : o \in SweepDirs(start, order) }
                    : order \in Perms(done) }
    IN  Run({}, "readdir", NoEntry)
        \cup Run(expired, "none", NoEntry)
        \cup UNION { UNION {Run(done, "stat", e) : done \in SUBSET (expired \ {e.day})}
                     : e \in entries }
        \cup UNION { UNION {Run(done, "rm", DirEntry(d)) : done \in SUBSET (expired \ {d})}
                     : d \in expired }

\* the callback of the interval timer, lines 285-287
Sweep ==
    /\ now >= timer.due
    /\ \E o \in CleanOldLogs(files, dirs, logStats, now, seq) :
         /\ files' = o.files
         /\ dirs' = o.dirs
         /\ logStats' = o.stats
         /\ recorded' = [recorded EXCEPT !["info"] = @ + o.logged]
         /\ now' = o.t
         /\ seq' = o.id
         /\ last' = [op |-> "sweep", type |-> "info", noThrow |-> FALSE, id |-> o.id,
                     size |-> 1, statBefore |-> logStats["info"],
                     printed |-> o.printed, raised |-> "none",
                     w1 |-> o.w1, w2 |-> o.w2,
                     at |-> now, deleted |-> o.deleted, fault |-> o.fault,
                     failedOn |-> o.failedOn, dirsBefore |-> dirs,
                     filesBefore |-> files]
    /\ timer' = [due |-> timer.due + TicksPerDay, runs |-> timer.runs + 1]
    /\ UNCHANGED <<production, base, snap, boot, pure>>

\* Logger.info(layer, message), lines 224-226
LogInfo ==
    /\ CanCall
    /\ LET msg == [id |-> seq + 1, type |-> "info", size |-> 1]
       IN  \E r \in RecordOutcomes(files, dirs, "info", FALSE, msg, now) :
             /\ logStats' = IncrStat(logStats, "info")
             /\ recorded' = [recorded EXCEPT !["info"] = @ + 1]
             /\ files' = r.files
             /\ dirs' = r.dirs
             /\ now' = r.t
             /\ seq' = seq + 1
             /\ last' = [op |-> "record", type |-> "info", noThrow |-> FALSE,
                         id |-> seq + 1, size |-> 1,
                         statBefore |-> logStats["info"],
                         printed |-> r.printed, raised |-> r.raised,
                         w1 |-> r.w1, w2 |-> r.w2]
    /\ UNCHANGED <<production, base, timer, snap, boot, pure>>

\* daily directories earlier runs of the process may have left under LOG_DIR,
\* each last modified on its own day: one ten days old, and one that is just
\* past the retention window when the timer is first due
StaleDirs ==
    { [day |-> 0 - (MAX_LOG_FILES + 3), mtime |-> 0 - (MAX_LOG_FILES + 3) * TicksPerDay],
      [day |-> 0 - MAX_LOG_FILES, mtime |-> 0 - 1 - (MAX_LOG_FILES - 1) * TicksPerDay] }

\* daily directories of earlier runs that are within the retention window when
\* the timer is first due: one exactly MAX_LOG_FILES days old by then, and one
\* three days old
FreshDirs ==
    { [day |-> 0 - (MAX_LOG_FILES - 1), mtime |-> 0 - (MAX_LOG_FILES - 1) * TicksPerDay],
      [day |-> 0 - 3, mtime |-> 0 - 3 * TicksPerDay] }

OldDays == {o.day : o \in StaleDirs \cup FreshDirs}

\* the entry an earlier run left in each of its files
OldMsg == [id |-> 0, type |-> "info", size |-> 1]

\* the state after construction in a log root that holds older directories
\* and one plain file
SweepInit ==
    /\ production = FALSE
    /\ now = 0
    /\ logStats = [ZeroStats EXCEPT !["info"] = Len(StartupMsgs)]
    /\ recorded = [ZeroStats EXCEPT !["info"] = Len(StartupMsgs)]
    /\ base = ZeroStats
    /\ seq = Len(StartupMsgs)
    /\ \E present \in {FreshDirs \cup stale : stale \in SUBSET StaleDirs} :
         /\ dirs = [d \in OldDays \cup Days |->
                      IF d = 0 THEN 0
                      ELSE IF \E o \in present : o.day = d
                           THEN (CHOOSE o \in present : o.day = d).mtime
                           ELSE NoDir]
         /\ files = [p \in {Canon(0, "info"), Canon(0, "all"), RootFile(".gitkeep")}
                           \cup {Canon(o.day, "all") : o \in present} |->
                      IF p[1] = 0 THEN StartupMsgs
                      ELSE IF p[1] = NoDir THEN <<>> ELSE <<OldMsg>>]
    /\ last = [op |-> "record", type |-> "info", noThrow |-> FALSE, id |-> 2,
               size |-> 1, statBefore |-> 1, printed |-> TRUE, raised |-> "none",
               w1 |-> [NoWrite EXCEPT !.type = "info", !.path = Canon(0, "info"),
                                      !.old = <<StartupMsgs[1]>>, !.appended = TRUE],
               w2 |-> [NoWrite EXCEPT !.type = "all", !.path = Canon(0, "all"),
                                      !.old = <<StartupMsgs[1]>>, !.appended = TRUE]]
    /\ timer = StartLogRotation(0)
    /\ snap = NoSnap
    /\ boot = NotBooted
    /\ pure = Idle

SweepNext == Sweep \/ LogInfo \/ Tick

SweepSpec == SweepInit /\ [][SweepNext]_vars

\* ------------------------------------------------------------ Logger.group
\* what the callback passed to group() does: it returns, it raises, or it
\* records a debug entry and returns
Callbacks == {"returns", "raises", "logs"}

\* lines 258 and 262: this.info(layer, marker) made in the running call st
Marker(st, ev) ==
    { [st EXCEPT !.files = r.files, !.dirs = r.dirs, !.t = r.t,
                 !.stats = IncrStat(@, "info"), !.id = @ + 1,
                 !.events = Append(@, ev), !.marks = Append(@, st.id + 1),
                 !.failed = Append(@, r.w1.failed \/ r.w2.failed),
                 !.printed = r.printed, !.w1 = r.w1, !.w2 = r.w2,
                 !.raised = IF r.raised # "none" THEN r.raised ELSE @]
      : r \in RecordOutcomes(st.files, st.dirs, "info", FALSE,
                             [id |-> st.id + 1, type |-> "info", size |-> 1], st.t) }

\* line 260: callback(), run to its end inside the call
RunCallback(st, cb) ==
    LET in == [st EXCEPT !.events = Append(@, "callback")]
    IN  CASE cb = "returns" -> {[in EXCEPT !.t = u] : u \in Times(st.t)}
          [] cb = "raises" -> {[in EXCEPT !.raised = "callback"]}
          [] cb = "logs" ->
                { [in EXCEPT !.files = r.files, !.dirs = r.dirs, !.t = r.t,
                             !.stats = IncrStat(@, "debug"), !.id = @ + 1]
                  : r \in RecordOutcomes(st.files, st.dirs, "debug", FALSE,
                                         [id |-> st.id + 1, type |-> "debug", size |-> 1],
                                         st.t) }

\* the start of a group() call at clock value t
GroupStart(F, D, S, id, t) ==
    [files |-> F, dirs |-> D, stats |-> S, t |-> t, id |-> id, events |-> <<>>,
     marks |-> <<>>, failed |-> <<>>, printed |-> FALSE, w1 |-> NoWrite,
     w2 |-> NoWrite, raised |-> "none"]

\* a group() whose end marker follows the callback outside any finally clause
GroupOutcomesNoFinally(F, D, S, cb, id, t) ==
    UNION { IF s1.raised # "none" THEN {s1}
            ELSE UNION { IF s2.raised # "none" THEN {s2} ELSE Marker(s2, "end")
                         : s2 \in RunCallback(s1, cb) }
            : s1 \in Marker(GroupStart(F, D, S, id, t), "start") }

\* Logger.group(layer, title, callback), lines 257-264
GroupOutcomes(F, D, S, cb, id, t) ==
    UNION { IF s1.raised # "none" THEN {s1}
            ELSE UNION {Marker(s2, "end") : s2 \in RunCallback(s1, cb)}
            : s1 \in Marker(GroupStart(F, D, S, id, t), "start") }

Group ==
    /\ CanCall
    /\ \E cb \in Callbacks :
         \E o \in GroupOutcomes(files, dirs, logStats, cb, seq, now) :
            /\ files' = o.files
            /\ dirs' = o.dirs
            /\ logStats' = o.stats
            /\ recorded' = [s \in Severities |->
                              recorded[s] + (o.stats[s] - logStats[s])]
            /\ now' = o.t
            /\ seq' = o.id
            /\ last' = [op |-> "group", type |-> cb, noThrow |-> FALSE, id |-> o.id,
                        size |-> 1, statBefore |-> logStats["info"],
                        printed |-> o.printed, raised |-> o.raised,
                        w1 |-> o.w1, w2 |-> o.w2, events |-> o.events,
                        marks |-> o.marks, failed |-> o.failed]
    /\ UNCHANGED <<production, base, timer, snap, boot, pure>>

GroupNext == Group \/ Tick

GroupSpec == Init /\ [][GroupNext]_vars

\* --------------------------------------------------- stack parsing, lines
\* A line of a stack string is a sequence of tokens: the word "at", a blank
\* " ", the parentheses, the suffix ":n:n" (a colon, digits, a colon, digits)
\* and words, which hold none of these.  A stack string is the sequence of its
\* lines (stack.split('\n')); NullStack stands for null and undefined.
MaxLines == 3          \* lines of a stack string after its first line

NullStack == <<>>

\* !stack: null, undefined and the empty string
Falsy(stack) == stack = NullStack \/ stack = << <<>> >>

AllBlank(line, a, b) == \A x \in a..b : line[x] = " "

\* /at\s+(.+?)\s+\((.+):(\d+):(\d+)\)/: i the "at", i+1..j blanks, j+1..k the
\* function, k+1..l blanks, l+1 the "(", l+2..m the file, m+1 ":n:n", m+2 ")"
Matches1(line) ==
    LET n == Len(line)
        I == {i \in 1..n : line[i] = "at"}
        J(i) == {j \in (i + 1)..n : AllBlank(line, i + 1, j)}
        K(j) == (j + 1)..n
        L(k) == {l \in (k + 1)..(n - 1) : AllBlank(line, k + 1, l) /\ line[l + 1] = "("}
        M(l) == {m \in (l + 2)..(n - 2) : line[m + 1] = ":n:n" /\ line[m + 2] = ")"}
    IN  UNION { UNION { UNION { UNION { {<<i, j, k, l, m>> : m \in M(l)}
                                        : l \in L(k) }
                                : k \in K(j) }
                        : j \in J(i) }
                : i \in I }

\* /at\s+(.+):(\d+):(\d+)/: i the "at", i+1..j blanks, j+1..m the file, m+1 ":n:n"
Matches2(line) ==
    LET n == Len(line)
        I == {i \in 1..n : line[i] = "at"}
        J(i) == {j \in (i + 1)..n : AllBlank(line, i + 1, j)}
        M(j) == {m \in (j + 1)..(n - 1) : line[m + 1] = ":n:n"}
    IN  UNION { UNION { {<<i, j, m>> : m \in M(j)} : j \in J(i) } : i \in I }

\* the order in which the regular expression engine tries its matches: the
\* leftmost start, greedy quantifiers long first, the lazy one short first
Before(c, e, greedy) ==
    \E x \in DOMAIN c :
        /\ \A y \in 1..(x - 1) : c[y] = e[y]
        /\ IF greedy[x] THEN c[x] > e[x] ELSE c[x] < e[x]

First(C, greedy) == CHOOSE c \in C : \A e \in C \ {c} : Before(c, e, greedy)

RECURSIVE TrimLeft(_)
TrimLeft(line) ==
    IF line # <<>> /\ Head(line) = " " THEN TrimLeft(Tail(line)) ELSE line

RECURSIVE TrimRight(_)
TrimRight(line) ==
    IF line # <<>> /\ line[Len(line)] = " "
    THEN TrimRight(SubSeq(line, 1, Len(line) - 1)) ELSE line

\* String.prototype.trim()
Trim(line) == TrimRight(TrimLeft(line))

\* lines 124-145: the entry made of one line
ParseLine(line) ==
    LET C1 == Matches1(line)
        C2 == Matches2(line)
    IN  IF C1 # {}
        THEN LET c == First(C1, <<FALSE, TRUE, FALSE, TRUE, TRUE>>)
             IN  [function |-> Trim(SubSeq(line, c[2] + 1, c[3])),
                  file |-> SubSeq(line, c[4] + 2, c[5]), at |-> ":n:n", raw |-> <<>>]
        ELSE IF C2 # {}
        THEN LET c == First(C2, <<FALSE, TRUE, TRUE>>)
             IN  [function |-> <<"anonymous">>,
                  file |-> SubSeq(line, c[2] + 1, c[3]), at |-> ":n:n", raw |-> <<>>]
        ELSE [function |-> <<>>, file |-> <<>>, at |-> "", raw |-> Trim(line)]

\* a filter that keeps every entry
KeepsDespiteEmpty(item) == TRUE

\* line 147: .filter((item) => item.file || item.raw)
Keeps(item) == item.file # <<>> \/ item.raw # <<>>

\* Logger.parseStack(stack), lines 120-148
ParseStack(stack) ==
    IF Falsy(stack) THEN <<>>
    ELSE LET lines == Tail(stack)
         IN  SelectSeq([i \in 1..Len(lines) |-> ParseLine(lines[i])], Keeps)

\* the lines the stack strings are made of
HeadLine == <<"Error:", " ", "msg">>
NamedLine == <<" ", "at", " ", "fn", " ", "(", "file.js", ":n:n", ")">>
AnonLine == <<" ", "at", " ", "file.js", ":n:n">>
NativeLine == <<" ", "at", " ", "fn", " ", "(", "native", ")">>
TextLine == <<"caused", " ", "by">>
BlankLine == <<>>
SpaceLine == <<" ", " ">>

\* frames of the two shapes 'at fn (file:line:col)' and 'at file:line:col'
WellFormed == {NamedLine, AnonLine}

\* lines of neither shape
Malformed == {NativeLine, TextLine, BlankLine, SpaceLine}

RECURSIVE SeqsUpTo(_, _)
\* the sequences of at most n elements of S
SeqsUpTo(S, n) ==
    IF n = 0 THEN {<<>>}
    ELSE LET shorter == SeqsUpTo(S, n - 1)
         IN  shorter \cup {Append(q, x) : q \in shorter, x \in S}

\* the values of err.stack
Stacks ==
    {NullStack} \cup {<<HeadLine>> \o ls : ls \in SeqsUpTo(WellFormed \cup Malformed, MaxLines)}

\* every variable but production and pure, as the static initializer leaves it
FreshStart ==
    /\ now = 0
    /\ logStats = [ZeroStats EXCEPT !["info"] = Len(StartupMsgs)]
    /\ recorded = [ZeroStats EXCEPT !["info"] = Len(StartupMsgs)]
    /\ base = ZeroStats
    /\ seq = Len(StartupMsgs)
    /\ dirs = [d \in Days |-> IF d = 0 THEN 0 ELSE NoDir]
    /\ files = (Canon(0, "info") :> StartupMsgs) @@ (Canon(0, "all") :> StartupMsgs)
    /\ last = [op |-> "record", type |-> "info", noThrow |-> FALSE, id |-> 2,
               size |-> 1, statBefore |-> 1, printed |-> TRUE, raised |-> "none",
               w1 |-> [NoWrite EXCEPT !.type = "info", !.path = Canon(0, "info"),
                                      !.old = <<StartupMsgs[1]>>, !.appended = TRUE],
               w2 |-> [NoWrite EXCEPT !.type = "all", !.path = Canon(0, "all"),
                                      !.old = <<StartupMsgs[1]>>, !.appended = TRUE]]
    /\ timer = StartLogRotation(0)
    /\ snap = NoSnap
    /\ boot = NotBooted

ParseInit ==
    /\ production = FALSE
    /\ FreshStart
    /\ \E stack \in Stacks : pure = [fn |-> "none", arg |-> stack, res |-> <<>>]

\* a caller applies parseStack to the stack string
ParseCall ==
    /\ pure.fn = "none"
    /\ pure' = [pure EXCEPT !.fn = "parseStack", !.res = ParseStack(pure.arg)]
    /\ UNCHANGED <<production, now, logStats, dirs, files, last, recorded, base,
                   seq, timer, snap, boot>>

ParseSpec == ParseInit /\ [][ParseCall]_vars

\* ------------------------------------------- the messages of record()
\* A message is the sequence of its lines; a line records the section it
\* belongs to, its text as tokens, and whether it carries console styling.
Line(sec, text, styled) == [sec |-> sec, text |-> text, styled |-> styled]

\* the kinds of value passed as options.context: none, an object, an object
\* util.inspect throws on, and the number 0
ContextKinds == {"undefined", "object", "throwing", "0"}

\* the truthiness of a value of these kinds, as if (options.context) tests it
Truthy(v) == v \in {"object", "throwing"}

\* Logger.formatValue(value), lines 86-102
FormatValue(v) ==
    CASE v = "null" -> "null"
      [] v = "undefined" -> "undefined"
      [] v = "object" -> "inspect(object)"
      [] v = "throwing" -> "[Circular or Invalid Object]"
      [] OTHER -> v

\* the payloads: a plain string; an object with name, code and stack that is
\* no Error; Error values with or without a name, a code and a stack
OneFrame == <<HeadLine, NamedLine>>

Payloads ==
    { [isError |-> FALSE, name |-> "", code |-> "", stack |-> NullStack],
      [isError |-> FALSE, name |-> "DbError", code |-> "E1", stack |-> OneFrame] }
    \cup [isError : {TRUE}, name : {"", "TypeError"}, code : {"", "E1"},
          stack : {NullStack, <<HeadLine>>, OneFrame}]

\* Logger.extractErrorInfo(err), lines 104-118
ExtractErrorInfo(err) ==
    IF err.isError
    THEN [name |-> err.name, code |-> err.code, stack |-> err.stack]
    ELSE [name |-> "", code |-> "", stack |-> NullStack]

\* Logger.formatStack(stack, forConsole), lines 150-169
FormatStack(stack, forConsole) ==
    LET parsed == ParseStack(stack)
    IN  [i \in 1..Len(parsed) |->
           IF parsed[i].raw # <<>>
           THEN Line("stack", parsed[i].raw, forConsole)
           ELSE Line("stack",
                     <<"->">> \o (IF parsed[i].function # <<>> THEN parsed[i].function
                                  ELSE <<"anonymous">>)
                       \o <<"(">> \o parsed[i].file \o <<parsed[i].at, ")">>,
                     forConsole)]

\* lines 179-186: the header line, then the context when options.context is truthy
WithContext(context, styled) ==
    IF Truthy(context)
    THEN <<Line("header", <<>>, styled), Line("Context", <<FormatValue(context)>>, styled)>>
    ELSE <<Line("header", <<>>, styled)>>

\* lines 189-196: the message of an error entry with a name, built anew
Tagged(info, styled) ==
    IF info.code # ""
    THEN <<Line("header", <<info.name>>, styled), Line("Code", <<info.code>>, styled)>>
    ELSE <<Line("header", <<info.name>>, styled)>>

\* lines 199-207: the stack section
StackSection(type, info, trace, styled) ==
    IF ~Falsy(info.stack) /\ (type = "error" \/ trace)
    THEN FormatStack(info.stack, styled) ELSE <<>>

\* a composition that appends the code line after the stack
BuildMessageCodeLast(type, err, context, trace, styled) ==
    LET info == ExtractErrorInfo(err)
        head == IF type = "error" /\ info.name # ""
                THEN <<Line("header", <<info.name>>, styled)>>
                ELSE WithContext(context, styled)
        code == IF type = "error" /\ info.name # "" /\ info.code # ""
                THEN <<Line("Code", <<info.code>>, styled)>> ELSE <<>>
    IN  head \o StackSection(type, info, trace, styled) \o code

\* lines 174-207 of record(): consoleMessage (styled) and fileMessage (plain)
BuildMessage(type, err, context, trace, styled) ==
    LET info == ExtractErrorInfo(err)
        head == IF type = "error" /\ info.name # ""
                THEN Tagged(info, styled)
                ELSE WithContext(context, styled)
    IN  head \o StackSection(type, info, trace, styled)

FormatInit ==
    /\ production = FALSE
    /\ FreshStart
    /\ \E type \in Severities, err \in Payloads, context \in ContextKinds,
          trace \in BOOLEAN :
         pure = [fn |-> "none",
                 arg |-> [type |-> type, err |-> err, context |-> context,
                          trace |-> trace],
                 res |-> [console |-> <<>>, file |-> <<>>]]

\* record() composes its two messages
Compose ==
    /\ pure.fn = "none"
    /\ LET a == pure.arg
       IN  pure' = [pure EXCEPT
                      !.fn = "record",
                      !.res = [console |-> BuildMessage(a.type, a.err, a.context,
                                                        a.trace, TRUE),
                               file |-> BuildMessage(a.type, a.err, a.context,
                                                     a.trace, FALSE)]]
    /\ UNCHANGED <<production, now, logStats, dirs, files, last, recorded, base,
                   seq, timer, snap, boot>>

FormatSpec == FormatInit /\ [][Compose]_vars

\* ------------------------------------------------------------ Logger.stats
\* A caller holds the object stats() returned: ref tells whether it is an
\* object of its own ("copy") or the logStats object itself ("logStats"); val
\* holds the fields of a copy.  orig and touched are history: the counters at
\* the time of the call, and whether the caller has written to the object.

\* a stats() that hands out the counter object itself
StatsResultAlias(S) ==
    [ref |-> "logStats", val |-> S, orig |-> S, touched |-> FALSE]

\* Logger.stats(), lines 273-275: return { ...this.logStats }
StatsResult(S) == [ref |-> "copy", val |-> S, orig |-> S, touched |-> FALSE]

\* what the caller reads in the object it holds
View(sn, S) == IF sn.ref = "logStats" THEN S ELSE sn.val

\* Logger.stats(); last.type keeps the operation that came before the call
Stats ==
    /\ CanCall
    /\ snap' = StatsResult(logStats)
    /\ seq' = seq + 1
    /\ last' = [op |-> "stats", type |-> last.op, noThrow |-> FALSE, id |-> seq + 1,
                size |-> 0, statBefore |-> 0, printed |-> FALSE, raised |-> "none",
                w1 |-> NoWrite, w2 |-> NoWrite]
    /\ UNCHANGED <<production, now, logStats, dirs, files, recorded, base, timer,
                   boot, pure>>

\* the caller assigns to a field of the object stats() returned
MutateSnap ==
    /\ snap.ref # "none" /\ ~snap.touched
    /\ \E s \in Severities :
         LET v == View(snap, logStats)[s] + 1 IN
         IF snap.ref = "logStats"
         THEN /\ logStats' = [logStats EXCEPT ![s] = v]
              /\ snap' = [snap EXCEPT !.touched = TRUE]
         ELSE /\ logStats' = logStats
              /\ snap' = [snap EXCEPT !.val[s] = v, !.touched = TRUE]
    /\ last' = [op |-> "mutate", type |-> last.op, noThrow |-> FALSE, id |-> seq,
                size |-> 0, statBefore |-> 0, printed |-> FALSE, raised |-> "none",
                w1 |-> NoWrite, w2 |-> NoWrite, statsBefore |-> logStats]
    /\ UNCHANGED <<production, now, dirs, files, recorded, base, seq, timer, boot, pure>>

StatsNext == Stats \/ MutateSnap \/ Record \/ ClearStats

StatsSpec == Init /\ [][StatsNext]_vars

\* ---------------------------------------------------------------- Boot.run
\* Boot.run() (src/unnamed/part_000, lines 62-77) and what it starts:
\* Database.init() (logger.core.js, lines 325-418), Express.init() (part_000,
\* lines 19-24), Server.init() (lines 458-473), Socket.init() (socket.core.js,
\* lines 11-22).  A position is named after the source line of the logger call
\* or of the awaited call that comes next.
MaxFaults == 1         \* file-system faults during one start-up

\* the logger call at each position: the entry point, the position reached
\* when it returns, and the position of the catch clause reached when it or
\* the statement after it raises
LogCalls ==
    [ b65 |-> [call |-> "info", ret |-> "d327", exc |-> "b74"],
      d327 |-> [call |-> "info", ret |-> "d357", exc |-> "d351"],
      d358 |-> [call |-> "info", ret |-> "d383", exc |-> "d360"],
      d360 |-> [call |-> "set", ret |-> "d351", exc |-> "d351"],
      d383 |-> [call |-> "debug", ret |-> "d387", exc |-> "d389"],
      d387 |-> [call |-> "info", ret |-> "d401", exc |-> "d389"],
      d389 |-> [call |-> "set", ret |-> "d401", exc |-> "d351"],
      d401 |-> [call |-> "info", ret |-> "d410", exc |-> "d403"],
      d403 |-> [call |-> "set", ret |-> "d410", exc |-> "d351"],
      d414 |-> [call |-> "info", ret |-> "d349", exc |-> "d416"],
      d416 |-> [call |-> "set", ret |-> "d349", exc |-> "d351"],
      d349 |-> [call |-> "info", ret |-> "e20", exc |-> "d351"],
      d351 |-> [call |-> "set", ret |-> "e20", exc |-> "b74"],
      e20 |-> [call |-> "info", ret |-> "e23", exc |-> "b74"],
      e23 |-> [call |-> "info", ret |-> "s465", exc |-> "b74"],
      s465 |-> [call |-> "info", ret |-> "k13", exc |-> "s471"],
      s471 |-> [call |-> "set", ret |-> "k13", exc |-> "b74"],
      k13 |-> [call |-> "info", ret |-> "k17", exc |-> "b74"],
      k17 |-> [call |-> "info", ret |-> "resolved", exc |-> "b74"],
      b74 |-> [call |-> "set", ret |-> "resolved", exc |-> "rejected"] ]

\* the awaited calls: sequelize.authenticate() (line 357) and sequelize.sync()
\* (line 410), with the positions reached when the promise is fulfilled and
\* when it is rejected
Awaits ==
    [ d357 |-> [ok |-> "d358", fail |-> "d360", err |-> "connection"],
      d410 |-> [ok |-> "d414", fail |-> "d416", err |-> "sync"] ]

\* the component whose init() begins at a position
Begins ==
    [ d327 |-> "database", e20 |-> "express", s465 |-> "server", k13 |-> "socket" ]

Enter(trace, pc) == IF pc \in DOMAIN Begins THEN Append(trace, Begins[pc]) ELSE trace

\* the writes of an outcome that failed on the file system
FaultsOf(r) ==
    (IF r.w1.failed THEN 1 ELSE 0) + (IF r.w2.failed THEN 1 ELSE 0)

\* a caller invokes Boot.run()
BootRun ==
    /\ boot.pc = "idle"
    /\ boot' = [boot EXCEPT !.pc = "b65"]
    /\ UNCHANGED <<production, now, logStats, dirs, files, last, recorded, base,
                   seq, timer, snap, pure>>

\* the start-up runs up to and through its next logger call
BootLog ==
    /\ boot.pc \in DOMAIN LogCalls
    /\ LET c == LogCalls[boot.pc]
           type == TypeOf(c.call)
           msg == [id |-> seq + 1, type |-> type, size |-> 1]
       IN  \E r \in RecordOutcomes(files, dirs, type, FALSE, msg, now) :
             /\ boot.faults + FaultsOf(r) <= MaxFaults
             /\ logStats' = IncrStat(logStats, type)
             /\ recorded' = [recorded EXCEPT ![type] = @ + 1]
             /\ files' = r.files
             /\ dirs' = r.dirs
             /\ now' = r.t
             /\ seq' = seq + 1
             /\ last' = [op |-> "record", type |-> type, noThrow |-> FALSE,
                         id |-> seq + 1, size |-> 1, statBefore |-> logStats[type],
                         printed |-> r.printed, raised |-> r.raised,
                         w1 |-> r.w1, w2 |-> r.w2]
             /\ boot' = [boot EXCEPT
                           !.pc = IF r.raised = "none" THEN c.ret ELSE c.exc,
                           !.trace = Enter(@, boot.pc),
                           !.faults = @ + FaultsOf(r)]
    /\ UNCHANGED <<production, base, timer, snap, pure>>

\* the database answers an awaited call
DbReplies ==
    /\ boot.pc \in DOMAIN Awaits
    /\ \E ok \in BOOLEAN :
         boot' = IF ok THEN [boot EXCEPT !.pc = Awaits[boot.pc].ok]
                 ELSE [boot EXCEPT !.pc = Awaits[boot.pc].fail,
                                   !.err = Awaits[boot.pc].err,
                                   !.dbFailed = @ \/ boot.pc = "d357"]
    /\ UNCHANGED <<production, now, logStats, dirs, files, last, recorded, base,
                   seq, timer, snap, pure>>

BootNext == BootRun \/ BootLog \/ DbReplies

BootSpec == Init /\ [][BootNext]_vars

\* ------------------------------------------- rotation under long entries
\* the size of a file message that alone exceeds MAX_LOG_SIZE (a long message,
\* a large context object or a deep stack)
LongSizes == {MAX_LOG_SIZE + 1}

\* the n info entries an earlier run of the same day left in info.log and,
\* mirrored, in all.log
Earlier(n) == [i \in 1..n |-> [id |-> i - n, type |-> "info", size |-> 1]]

\* what the two start-up entries make of a canonical file that held n entries:
\* the first one rotates it at clock value t when it is over the maximum
\* (lines 71-77), and both are appended (line 80)
AfterStartup(type, n, t) ==
    IF FileSize(Earlier(n)) > MAX_LOG_SIZE
    THEN (RotatedName(DayOf(t), type, t) :> Earlier(n))
             @@ (Canon(DayOf(t), type) :> StartupMsgs)
    ELSE Canon(DayOf(t), type) :> (Earlier(n) \o StartupMsgs)

\* the state after construction in a log root whose directory of today holds
\* the files of an earlier run: files at the maximum size or one entry over it
RotateInit ==
    /\ production = FALSE
    /\ now = 0
    /\ logStats = [ZeroStats EXCEPT !["info"] = Len(StartupMsgs)]
    /\ recorded = [ZeroStats EXCEPT !["info"] = Len(StartupMsgs)]
    /\ base = ZeroStats
    /\ seq = Len(StartupMsgs)
    /\ dirs = [d \in Days |-> IF d = 0 THEN 0 ELSE NoDir]
    /\ \E n \in {MAX_LOG_SIZE, MAX_LOG_SIZE + 1} :
         /\ files = AfterStartup("info", n, 0) @@ AfterStartup("all", n, 0)
         /\ last = [op |-> "record", type |-> "info", noThrow |-> FALSE, id |-> 2,
                    size |-> 1, statBefore |-> 1, printed |-> TRUE, raised |-> "none",
                    w1 |-> [NoWrite EXCEPT
                              !.type = "info", !.path = Canon(0, "info"),
                              !.old = SubSeq(files[Canon(0, "info")], 1,
                                             Len(files[Canon(0, "info")]) - 1),
                              !.appended = TRUE],
                    w2 |-> [NoWrite EXCEPT
                              !.type = "all", !.path = Canon(0, "all"),
                              !.old = SubSeq(files[Canon(0, "all")], 1,
                                             Len(files[Canon(0, "all")]) - 1),
                              !.appended = TRUE]]
    /\ timer = StartLogRotation(0)
    /\ snap = NoSnap
    /\ boot = NotBooted
    /\ pure = Idle

\* the entry points taken where two severities suffice: one that never
\* raises and the one that re-raises outside production mode
SampleOps == {"info", "error"}

\* a call of one of the entry points ops with an entry of one of the sizes
RecordWith(ops, sizes) ==
    /\ CanCall
    /\ \E op \in ops, noThrow \in BOOLEAN, size \in sizes :
         /\ noThrow => op \in {"error", "set"}
         /\ LET type == TypeOf(op)
                msg == [id |-> seq + 1, type |-> type, size |-> size]
            IN  \E r \in RecordOutcomes(files, dirs, type, noThrow, msg, now) :
                  /\ logStats' = IncrStat(logStats, type)
                  /\ recorded' = [recorded EXCEPT ![type] = @ + 1]
                  /\ files' = r.files
                  /\ dirs' = r.dirs
                  /\ now' = r.t
                  /\ seq' = seq + 1
                  /\ last' = [op |-> "record", type |-> type, noThrow |-> noThrow,
                              id |-> seq + 1, size |-> size,
                              statBefore |-> logStats[type],
                              printed |-> r.printed, raised |-> r.raised,
                              w1 |-> r.w1, w2 |-> r.w2]
    /\ UNCHANGED <<production, base, timer, snap, boot, pure>>

\* info / error with a long entry
RecordLong == RecordWith(SampleOps, LongSizes)

RotateNext == RecordLong \/ Tick

RotateSpec == RotateInit /\ [][RotateNext]_vars

\* ------------------------------------------- every operation on the counters
\* Logger.init(), lines 48-52, called again after construction: LOG_DIR is
\* there, so existsSync is true and nothing is made
LoggerInit ==
    /\ CanCall
    /\ seq' = seq + 1
    /\ last' = [op |-> "init", type |-> "", noThrow |-> FALSE, id |-> seq + 1,
                size |-> 0, statBefore |-> 0, printed |-> FALSE, raised |-> "none",
                w1 |-> NoWrite, w2 |-> NoWrite]
    /\ UNCHANGED <<production, now, logStats, dirs, files, recorded, base, timer,
                   snap, boot, pure>>

\* info / error with a short entry
LeveledCall == RecordWith(SampleOps, MsgSizes)

\* the state after construction in a log root that holds, besides younger
\* directories and a plain file, one directory ten days old
CounterInit ==
    /\ SweepInit
    /\ dirs[0 - (MAX_LOG_FILES + 3)] # NoDir
    /\ dirs[0 - MAX_LOG_FILES] = NoDir

CounterNext ==
    LeveledCall \/ Table \/ Stats \/ ClearStats \/ LoggerInit \/ Sweep \/ Tick

CounterSpec == CounterInit /\ [][CounterNext]_vars

\* ------------------------------------------------------------------ claims
IsRecord == last.op = "record"

\* the writeToFile calls the last operation made
Attempted == {w \in {last.w1, last.w2} : w.type # ""}

IsCanonical(p) == p[3] = -1

RECURSIVE SumOver(_, _)
SumOver(f, S) ==
    IF S = {} THEN 0
    ELSE LET x == CHOOSE y \in S : TRUE IN f[x] + SumOver(f, S \ {x})

\* record() calls of each severity since the counters were last zeroed
CallsSinceReset == [s \in Severities |-> recorded[s] - base[s]]

\* how often the entry numbered id stands in a file content
Occurrences(content, id) == Cardinality({i \in 1..Len(content) : content[i].id = id})

\* how often the entry numbered id stands in the files <type>.log and
\* <type>.<ts>.log of all daily directories
Stored(type, id) ==
    SumOver([p \in DOMAIN files |-> Occurrences(files[p], id)],
            {p \in DOMAIN files : p[2] = type})

\* C1: after any sequence of log calls, the counter of each severity equals the
\* number of calls made with that severity, and the 'all' counter equals the
\* number of all calls, whatever their severity.
C1_StatsCountCalls ==
    /\ \A s \in Severities \ {"all"} : logStats[s] = CallsSinceReset[s]
    /\ logStats["all"] = SumOver(CallsSinceReset, Severities)

\* C2: a log call raises to its caller exactly when the logger is not in
\* production mode, the severity is error and noThrow was not passed; every
\* other call returns normally.
C2_RaiseIff ==
    IsRecord =>
        ((last.raised # "none") <=>
            (~production /\ last.type = "error" /\ ~last.noThrow))

C2_Witness ==
    /\ IsRecord /\ ~production /\ last.type = "error" /\ ~last.noThrow
    /\ last.raised = "rethrow"

\* the write w appended the entry of the last call to the canonical file it targeted
Landed(w) ==
    /\ w.appended
    /\ w.path \in DOMAIN files
    /\ files[w.path][Len(files[w.path])].id = last.id

\* C3 (as stated): whenever an error call raises, the entry already stands in
\* error.log and in all.log of the current day.
C3_AppendedBeforeRaise ==
    (IsRecord /\ last.raised = "rethrow") =>
        /\ Landed(last.w1) /\ last.w1.path = Canon(DayOf(now), "error")
        /\ Landed(last.w2) /\ last.w2.path = Canon(DayOf(now), "all")

\* C3 (amended): every error call, raising or suppressed, has attempted the
\* write to error.log and then the write to all.log before it returns or
\* raises, and each of the two writes has either appended the entry to the
\* canonical file of the day it read or failed on the file system and been
\* reported; noThrow changes nothing in the files.
C3_WritesBeforeRaise ==
    (IsRecord /\ last.type = "error") =>
        /\ last.w1.type = "error" /\ last.w2.type = "all"
        /\ \A w \in {last.w1, last.w2} :
              /\ w.failed <=> ~w.appended
              /\ ~w.failed => Landed(w) /\ IsCanonical(w.path)

C3_Witness ==
    /\ IsRecord /\ last.raised = "rethrow"
    /\ Landed(last.w1) /\ Landed(last.w2)

\* C4 (as stated): after every completed write a canonical file is at most
\* MAX_LOG_SIZE, except for the write that rotated it.
C4_CanonicalWithinMax ==
    \A p \in DOMAIN files :
        IsCanonical(p) =>
            \/ FileSize(files[p]) <= MAX_LOG_SIZE
            \/ \E w \in Attempted : w.path = p /\ w.rotatedTo # NoPath

\* C4 (amended): a canonical file exceeds MAX_LOG_SIZE by at most its most
\* recent entry: it was at most MAX_LOG_SIZE before its last append, because a
\* write renames the file only when it is already over the maximum.
C4_OverByLastEntryOnly ==
    \A p \in DOMAIN files :
        IsCanonical(p) =>
            /\ files[p] # <<>>
            /\ FileSize(SubSeq(files[p], 1, Len(files[p]) - 1)) <= MAX_LOG_SIZE

C4_Witness ==
    \E p \in DOMAIN files :
        /\ IsCanonical(p) /\ FileSize(files[p]) > MAX_LOG_SIZE
        /\ \E w \in Attempted : w.path = p /\ w.appended /\ w.rotatedTo = NoPath

\* the canonical file existed and was larger than MAX_LOG_SIZE when w began
WasOver(w) == w.old # <<>> /\ FileSize(w.old) > MAX_LOG_SIZE

\* no later write of the same call went to the files of the same type
Final(w) == w = last.w2 \/ last.w2.type # w.type

\* the info files of day d, and the entries they hold
InfoFiles(d) == {p \in DOMAIN files : p[1] = d /\ p[2] = "info"}

InfoStored(d) == SumOver([p \in DOMAIN files |-> Len(files[p])], InfoFiles(d))

\* C5: a write rotates exactly when the canonical file exists and is larger
\* than MAX_LOG_SIZE (and no file-system call of the write fails before the
\* rename): the rotated file <type>.<ts>.log holds the old content unchanged
\* and the new message is the first entry of a fresh canonical file.  Hence
\* short info entries worth a little more than MAX_LOG_SIZE, all in one day,
\* leave exactly one rotated info file and an info.log holding only the tail.
C5_RotationExactlyWhenOver ==
    /\ \A w \in Attempted :
          /\ w.rotatedTo # NoPath => WasOver(w)
          /\ (WasOver(w) /\ ~w.failed) => w.rotatedTo # NoPath
          /\ w.rotatedTo # NoPath =>
                /\ w.rotatedTo[2] = w.type /\ ~IsCanonical(w.rotatedTo)
                /\ files[w.rotatedTo] = w.old
                /\ (w.appended /\ Final(w)) => files[w.path][1].id = last.id
          /\ (w.appended /\ ~WasOver(w) /\ Final(w)) =>
                /\ Len(files[w.path]) > Len(w.old)
                /\ SubSeq(files[w.path], 1, Len(w.old)) = w.old
    /\ \A d \in Days :
          LET n == recorded["info"] IN
          ( /\ InfoStored(d) = n
            /\ \A p \in InfoFiles(d) : \A i \in 1..Len(files[p]) : files[p][i].size = 1
            /\ n >= MAX_LOG_SIZE + 2 /\ n <= 2 * MAX_LOG_SIZE + 2 )
          => /\ Cardinality({p \in InfoFiles(d) : ~IsCanonical(p)}) = 1
             /\ \A p \in InfoFiles(d) :
                   ~IsCanonical(p) => Len(files[p]) = MAX_LOG_SIZE + 1
             /\ Canon(d, "info") \in DOMAIN files
             /\ Len(files[Canon(d, "info")]) = n - (MAX_LOG_SIZE + 1)

C5_Witness ==
    /\ IsRecord /\ last.type = "info" /\ last.w1.rotatedTo # NoPath /\ last.w1.appended
    /\ InfoStored(0) = recorded["info"]
    /\ recorded["info"] = MAX_LOG_SIZE + 2
    /\ files[Canon(0, "info")] = <<[id |-> last.id, type |-> "info", size |-> 1]>>

\* C6: in production mode a warning or error call writes its files but prints
\* nothing on the console, while info, debug, log and all calls print; outside
\* production mode every call prints.  The two file writes are made in every
\* mode and for every severity.
C6_ConsoleSuppression ==
    IsRecord =>
        /\ last.printed <=> (~production \/ last.type \notin {"error", "warning"})
        /\ last.w1.type = last.type /\ last.w2.type = "all"
        /\ \A w \in {last.w1, last.w2} : w.appended <=> ~w.failed

C6_Witness ==
    /\ IsRecord /\ production /\ last.type = "warning"
    /\ ~last.printed /\ Landed(last.w1) /\ Landed(last.w2)

\* C7: a file-system failure inside a log write never reaches the caller: it is
\* reported on the standard error stream and the call goes on; the write to the
\* all file is still attempted after a failed write to the severity file, the
\* console echo and the counter update happen as usual, and the call raises
\* only by the re-raise rule of an error entry.
C7_WriteFailureContained ==
    /\ Attempted # {} => last.raised # "fault"
    /\ \A w \in Attempted : ~w.appended => w.failed
    /\ IsRecord =>
          /\ last.w1.type = last.type /\ last.w2.type = "all"
          /\ last.printed <=> (~production \/ last.type \notin {"error", "warning"})
          /\ logStats[last.type] = last.statBefore + 1
          /\ last.raised = "rethrow" <=>
                (~production /\ last.type = "error" /\ ~last.noThrow)

C7_Witness ==
    /\ IsRecord /\ last.w1.failed /\ Landed(last.w2)
    /\ last.printed /\ last.raised = "none"

\* C8: no public operation of the logger surfaces an internal fault to its
\* caller, whatever is passed: the only exception that leaves the logger is the
\* re-raise of an error entry outside production mode.
C8_NoInternalFault ==
    /\ last.raised \in {"none", "rethrow"}
    /\ last.raised = "rethrow" => (IsRecord /\ ~production /\ last.type = "error")

\* C9: every recorded entry stands exactly once in the file of its severity
\* and exactly once in the all file, whatever its severity (here: whenever
\* neither write of the call failed).
C9_MirroredOnce ==
    (IsRecord /\ ~last.w1.failed /\ ~last.w2.failed) =>
        /\ Stored(last.type, last.id) = 1
        /\ Stored("all", last.id) = 1

\* C10: a rotated file stays in the daily directory of the canonical file it
\* was renamed from, also when the date changes during the write.
C10_RotatedStaysInDay ==
    \A w \in Attempted :
        w.rotatedTo # NoPath => w.rotatedTo[1] = w.path[1]

\* ------------------------------------------------ claims on the sweep
IsSweep == last.op = "sweep"

\* the directory of day d was there when the last sweep began, and it was
\* older than MAX_LOG_FILES days at the clock value the sweep read
WasDir(d) == last.dirsBefore[d] # NoDir

WasOld(d) ==
    WasDir(d) /\ last.at - last.dirsBefore[d] > MAX_LOG_FILES * TicksPerDay

\* the directory of day d and everything in it is gone
Gone(d) == dirs[d] = NoDir /\ \A p \in DOMAIN files : p[1] # d

\* the directory of day d is as the last sweep found it
Untouched(d) ==
    /\ dirs[d] = last.dirsBefore[d]
    /\ \A p \in DOMAIN last.filesBefore :
          p[1] = d => p \in DOMAIN files /\ files[p] = last.filesBefore[p]

\* C11: a sweep removes an entry directly under the log root only if it is a
\* directory last modified more than MAX_LOG_FILES days before the sweep, and
\* a sweep no file-system call of which fails removes every such directory
\* with all its content: the directory ten days old goes, while the directory
\* three days old, the directory exactly MAX_LOG_FILES days old and every
\* plain file stay as they were.
C11_SweepDeletesExpiredDirs ==
    IsSweep =>
        /\ \A d \in DOMAIN dirs :
              /\ (WasDir(d) /\ dirs[d] = NoDir) => WasOld(d)
              /\ (WasOld(d) /\ last.fault = "none") => Gone(d)
              /\ (WasDir(d) /\ ~WasOld(d)) =>
                    /\ dirs[d] # NoDir
                    /\ d \notin {DayOf(last.at), DayOf(now)} => Untouched(d)
        /\ \A p \in DOMAIN last.filesBefore :
              p[1] = NoDir => p \in DOMAIN files /\ files[p] = last.filesBefore[p]

C11_Witness ==
    /\ IsSweep /\ last.fault = "none"
    /\ WasOld(0 - (MAX_LOG_FILES + 3)) /\ Gone(0 - (MAX_LOG_FILES + 3))
    /\ WasOld(0 - MAX_LOG_FILES) /\ Gone(0 - MAX_LOG_FILES)
    /\ WasDir(0 - (MAX_LOG_FILES - 1)) /\ Untouched(0 - (MAX_LOG_FILES - 1))
    /\ WasDir(0 - 3) /\ Untouched(0 - 3)
    /\ RootFile(".gitkeep") \in DOMAIN files

\* C12: a sweep runs at (or right after) start-up, before a full interval has
\* gone by, so that no directory that was already expired when the process
\* started is still there once the clock has moved on; later sweeps follow
\* every 24 hours.
C12_SweepAtStartup ==
    (0 < now /\ now < TicksPerDay) =>
        /\ timer.runs >= 1
        /\ \A d \in DOMAIN dirs :
              dirs[d] # NoDir => ~(0 - dirs[d] > MAX_LOG_FILES * TicksPerDay)

\* --------------------------------------------------- claims on group()
IsGroup == last.op = "group"

\* the places of the entry numbered id in the all files, as <<path, index>>
PlacesInAll(id) ==
    {pi \in UNION {{<<p, i>> : i \in 1..Len(files[p])}
                   : p \in {q \in DOMAIN files : q[2] = "all"}}
        : files[pi[1]][pi[2]].id = id}

\* C13: group() records the start marker as an info entry, runs the callback
\* to its end, then records the end marker as an info entry, in that order and
\* each exactly once; the end marker is recorded also when the callback
\* raises, and the exception of the callback then still leaves group().
C13_GroupBrackets ==
    IsGroup =>
        /\ last.events = <<"start", "callback", "end">>
        /\ logStats["info"] = last.statBefore + 2
        /\ last.raised = (IF last.type = "raises" THEN "callback" ELSE "none")
        /\ Len(last.marks) = 2 /\ last.marks[1] < last.marks[2]
        /\ \A k \in 1..2 :
              ~last.failed[k] =>
                  /\ Stored("info", last.marks[k]) = 1
                  /\ Stored("all", last.marks[k]) = 1
        /\ \A a \in PlacesInAll(last.marks[1]), b \in PlacesInAll(last.marks[2]) :
              a[1] = b[1] => a[2] < b[2]

C13_Witness ==
    /\ IsGroup /\ last.type = "raises" /\ last.raised = "callback"
    /\ last.events = <<"start", "callback", "end">>
    /\ ~last.failed[1] /\ ~last.failed[2]
    /\ Stored("info", last.marks[2]) = 1

\* ------------------------------------------------- claims on parseStack
Parsed == pure.fn = "parseStack"

\* the lines of the argument after its first line
Body == IF Falsy(pure.arg) THEN <<>> ELSE Tail(pure.arg)

IsFrame(item) == item.function # <<>> /\ item.file # <<>> /\ item.at # ""
IsRaw(item) == item.raw # <<>> /\ item.file = <<>>

Count(q, Test(_)) == Cardinality({i \in 1..Len(q) : Test(q[i])})

IsWellFormed(line) == line \in WellFormed
IsMalformed(line) == line \in Malformed
IsBlank(line) == \A i \in 1..Len(line) : line[i] = " "
IsMalformedText(line) == IsMalformed(line) /\ ~IsBlank(line)
Survives(line) == IsWellFormed(line) \/ IsMalformedText(line)

\* C18 (as stated): K well-formed frames and J malformed lines after the first
\* line give exactly K entries with function, file, line and column and
\* exactly J raw entries.
C18_FramesAndRaw ==
    Parsed =>
        /\ Count(pure.res, IsFrame) = Count(Body, IsWellFormed)
        /\ Count(pure.res, IsRaw) = Count(Body, IsMalformed)

\* C18 (amended): K well-formed frames and J malformed lines after the first
\* line, B of them blank (empty or white space only), give exactly K entries
\* with function, file, line and column and exactly J - B raw entries holding
\* the trimmed text, in the order of the lines they come from; the blank lines
\* leave no entry.
C18_FramesAndNonBlankRaw ==
    Parsed =>
        LET kept == SelectSeq(Body, Survives) IN
        /\ Count(pure.res, IsFrame) = Count(Body, IsWellFormed)
        /\ Count(pure.res, IsRaw) = Count(Body, IsMalformed) - Count(Body, IsBlank)
        /\ Len(pure.res) = Len(kept)
        /\ \A i \in 1..Len(kept) :
              /\ IsWellFormed(kept[i]) <=> IsFrame(pure.res[i])
              /\ IsMalformedText(kept[i]) <=> IsRaw(pure.res[i])
              /\ IsRaw(pure.res[i]) => pure.res[i].raw = Trim(kept[i])
              /\ kept[i] = NamedLine =>
                    pure.res[i].function = <<"fn">> /\ pure.res[i].file = <<"file.js">>
              /\ kept[i] = AnonLine =>
                    /\ pure.res[i].function = <<"anonymous">>
                    /\ pure.res[i].file = <<"file.js">>

C18_Witness ==
    /\ Parsed
    /\ Body = <<NamedLine, BlankLine, TextLine>>
    /\ Len(pure.res) = 2 /\ IsFrame(pure.res[1]) /\ pure.res[2].raw = TextLine

\* ------------------------------------------ claims on the messages
Composed == pure.fn = "record"

\* the places of the lines of section sec in message m
Places(m, sec) == {i \in 1..Len(m) : m[i].sec = sec}

\* C14: whenever the caller passes a context (here: an object), its rendering
\* stands in the console message and in the file message of the entry, for
\* every severity and every kind of payload.
C14_ContextInBoth ==
    (Composed /\ Truthy(pure.arg.context)) =>
        \A m \in {pure.res.console, pure.res.file} :
            \E i \in Places(m, "Context") :
                m[i].text = <<FormatValue(pure.arg.context)>>

\* the place of each section in the order Context, stack frames, Code
ClaimedRank(sec) ==
    CASE sec = "header" -> 0
      [] sec = "Context" -> 1
      [] sec = "stack" -> 2
      [] sec = "Code" -> 3

\* C19 (as stated): in the file message the sections follow the header line
\* in the order Context, stack frames, Code, so that the Code line of an error
\* entry comes after its last stack frame line.
C19_ContextStackCode ==
    Composed =>
        LET m == pure.res.file IN
        \A i, j \in 1..Len(m) :
            i < j => ClaimedRank(m[i].sec) <= ClaimedRank(m[j].sec)

\* C19 (amended): in the file message the header line comes first and the
\* stack frames come last: the Context line and the Code line, whichever the
\* message carries, stand before the first stack frame line, so that the Code
\* line of an error entry with a code and a stack trace comes before its
\* first stack frame line.
C19_StackComesLast ==
    Composed =>
        LET m == pure.res.file IN
        /\ Places(m, "header") = {1}
        /\ Cardinality(Places(m, "Context")) <= 1
        /\ Cardinality(Places(m, "Code")) <= 1
        /\ \A i \in Places(m, "Context") \cup Places(m, "Code") :
              \A j \in Places(m, "stack") : i < j
        /\ (pure.arg.type = "error" /\ pure.arg.err.isError
              /\ pure.arg.err.name # "" /\ pure.arg.err.code # "")
           => Places(m, "Code") = {2}

C19_Witness ==
    /\ Composed /\ pure.arg.type = "error"
    /\ Places(pure.res.file, "Code") = {2}
    /\ Places(pure.res.file, "stack") = {3}

\* ------------------------------------------------- claims on the counters
AllZero(S) == DOMAIN S = Severities /\ \A s \in Severities : S[s] = 0

\* C15: clearStats() sets every counter to zero, whatever log calls were made
\* before, and a stats() called right after it returns zero for all six
\* severities.
C15_ClearStatsZeroes ==
    /\ last.op = "clearStats" => AllZero(logStats)
    /\ (last.op = "stats" /\ last.type = "clearStats") =>
          AllZero(View(snap, logStats))

C15_Witness ==
    /\ last.op = "stats" /\ last.type = "clearStats"
    /\ base["info"] > 0
    /\ AllZero(View(snap, logStats))

\* C17: stats() returns a copy of the counters: a caller that writes to the
\* returned object never changes the counters of the logger, and log calls and
\* clearStats() made later never change an object that was returned earlier.
C17_StatsIsSnapshot ==
    /\ last.op = "stats" => View(snap, logStats) = logStats
    /\ last.op = "mutate" => logStats = last.statsBefore
    /\ (snap.ref # "none" /\ ~snap.touched) => View(snap, logStats) = snap.orig

C17_Witness ==
    /\ snap.ref = "copy" /\ ~snap.touched
    /\ last.op = "clearStats"
    /\ snap.orig["info"] > 0 /\ View(snap, logStats) = snap.orig
    /\ AllZero(logStats)

\* the entries held by the files of the directory of day d, as <<type, id>>
EntriesIn(F, d) ==
    UNION { {<<p[2], F[p][i].id>> : i \in 1..Len(F[p])}
            : p \in {q \in DOMAIN F : q[1] = d} }

\* C16: a sweep never removes the directory of the current day: whatever the
\* interleaving of sweeps, clock advances and log calls, the directory the
\* writes of the day go to is not among those a sweep deletes, and when it was
\* there before the sweep it is there afterwards with every entry it held, so
\* that a later write of the same day appends to the same files.
C16_SweepSparesToday ==
    IsSweep =>
        LET today == DayOf(last.at) IN
        /\ \A i \in 1..Len(last.deleted) : last.deleted[i] < today
        /\ WasDir(today) =>
              /\ dirs[today] # NoDir
              /\ EntriesIn(last.filesBefore, today) \subseteq EntriesIn(files, today)

C16_Witness ==
    /\ IsSweep /\ last.deleted # <<>>
    /\ WasDir(DayOf(last.at)) /\ dirs[DayOf(last.at)] # NoDir
    /\ EntriesIn(last.filesBefore, DayOf(last.at)) # {}
    /\ EntriesIn(last.filesBefore, DayOf(last.at)) \subseteq EntriesIn(files, DayOf(last.at))
    /\ last.at > 0

\* ------------------------------------------------- claims on Boot.run
\* the positions inside Express.init, Server.init and Socket.init, and the
\* normal end of Boot.run
AfterDatabase == {"e20", "e23", "s465", "s471", "k13", "k17", "resolved"}

Started(component) == \E i \in 1..Len(boot.trace) : boot.trace[i] = component

\* C20: outside production mode, when the connection test of the database
\* fails during Boot.run(), the error is recorded and the start-up stops:
\* Express.init, Server.init and Socket.init are never invoked afterwards and
\* Boot.run() ends with that error raised.  In every start-up the database
\* is initialised before express, express before the server, and the server
\* before the socket.
C20_FailedDbAbortsBoot ==
    /\ (~production /\ boot.dbFailed) =>
          /\ boot.pc \notin AfterDatabase
          /\ ~Started("express") /\ ~Started("server") /\ ~Started("socket")
          /\ boot.pc \in {"d351", "b74", "rejected"} => recorded["error"] >= 1
          /\ boot.pc = "rejected" =>
                /\ boot.err = "connection"
                /\ last.type = "error" /\ last.raised = "rethrow"
                /\ boot.faults = 0 =>
                      /\ Stored("error", last.id) = 1
                      /\ Stored("all", last.id) = 1
    /\ \A i \in 1..Len(boot.trace) :
          boot.trace[i] = <<"database", "express", "server", "socket">>[i]

C20_Witness ==
    /\ ~production /\ boot.dbFailed /\ boot.pc = "rejected"
    /\ boot.trace = <<"database">>
    /\ boot.faults = 0 /\ recorded["error"] = 3
    /\ Stored("error", last.id) = 1

\* ------------------------------------------------------------------- C21
\* the numbers of the entries that stand in the files <type>.log and
\* <type>.<ts>.log of the daily directories of F
Kept(F, type) ==
    UNION {{F[p][i].id : i \in DOMAIN F[p]} : p \in {q \in DOMAIN F : q[2] = type}}

\* the rotations the step to the next state made
RotationsMade ==
    {w \in {last'.w1, last'.w2} : w.type # "" /\ w.rotatedTo # NoPath}

\* C21: size rotation never loses logged content: no rotation renames the
\* canonical file onto a rotated file that already exists, and every entry that
\* stands in a canonical or rotated file before a call still stands in a
\* canonical or rotated file of its severity after the call, also when two
\* rotations of one severity fall on the same clock value.
C21_RotationKeepsContent ==
    [][ /\ \A w \in RotationsMade : w.rotatedTo \notin DOMAIN files
        /\ \A p \in DOMAIN files : Kept(files, p[2]) \subseteq Kept(files', p[2])
      ]_vars

\* ------------------------------------------------------------------- C23
\* the last sweep met a failing statSync or rmSync on the directory of one day
FailedOnDir ==
    IsSweep /\ last.fault \in {"stat", "rm"} /\ last.failedOn.dir

\* C23: a failure while one directory is examined or deleted does not stop the
\* sweep: when the sweep is over, every other directory that was older than
\* MAX_LOG_FILES days is gone, wherever the failing entry stood in the listing.
C23_SweepSurvivesFailure ==
    FailedOnDir =>
        \A d \in DOMAIN dirs : WasOld(d) /\ d # last.failedOn.day => Gone(d)

\* ------------------------------------------------------------------- C22
\* an operation was made in the step to the next state; last' tells which
Called == seq' # seq \/ timer' # timer

Made(op) == Called /\ last'.op = op

\* by how much the counter of severity s changes in the step
Delta(s) == logStats'[s] - logStats[s]

\* C22: counters change only through a leveled log call, which adds one for
\* its one entry, and through clearStats(): stats(), table(), init() and a run
\* of the retention sweep, also one that deletes directories, leave every
\* counter as it is, and no operation but clearStats() makes a counter smaller.
C22_OnlyCallsCount ==
    [][ /\ Made("record") => Delta(last'.type) = 1
        /\ \A op \in {"stats", "table", "init", "sweep"} :
              Made(op) => \A s \in Severities : Delta(s) = 0
        /\ ~Made("clearStats") => \A s \in Severities : Delta(s) >= 0
        /\ (\E s \in Severities : Delta(s) # 0) =>
              Made("record") \/ Made("clearStats")
      ]_vars

\* C22 (amended): a leveled log call adds one to the counter of its severity;
\* a run of the retention sweep adds one to the info counter for each directory
\* it deletes, as it records an info entry for it, and changes no other
\* counter; stats(), table(), init() and a sweep that deletes nothing leave
\* every counter as it is; clearStats() zeroes them, and no other operation
\* makes a counter smaller.
C22_EntriesCount ==
    [][ /\ Made("record") => Delta(last'.type) = 1
        /\ Made("sweep") =>
              /\ Delta("info") = Len(last'.deleted)
              /\ \A s \in Severities \ {"info"} : Delta(s) = 0
        /\ \A op \in {"stats", "table", "init"} :
              Made(op) => \A s \in Severities : Delta(s) = 0
        /\ Made("clearStats") => AllZero(logStats')
        /\ ~Made("clearStats") => \A s \in Severities : Delta(s) >= 0
        /\ (\E s \in Severities : Delta(s) # 0) =>
              Made("record") \/ Made("sweep") \/ Made("clearStats")
      ]_vars

\* a sweep has deleted a directory and the info counter stands one higher
C22_Witness ==
    /\ IsSweep /\ Len(last.deleted) = 1
    /\ logStats["info"] = last.statBefore + 1

====
